---- MODULE Spec2Model ----
(***************************************************************************)
(* Model of mcech::memory::PoolAllocator<T> (src/PoolAllocator.h): a       *)
(* per-thread Pool holding a lock-free free list of Nodes behind the       *)
(* atomic `sentinel`, the facade's allocate/deallocate/clear, and the      *)
(* system allocator (::operator new / ::operator delete) they call; and of *)
(* the shared/local variant of the same allocator (src/unnamed/part_000),  *)
(* in variables of its own.                                                *)
(*                                                                         *)
(* Every action is one atomic access to shared memory (the sentinel of a   *)
(* Pool, or the system heap) together with the thread-local computation    *)
(* that precedes the next shared access.  The atomics are modelled as      *)
(* sequentially consistent.  A spurious failure of compare_exchange_weak   *)
(* leaves `expected` and the sentinel as they are and is re-tried by the   *)
(* loop of Pool::compare_exchange: it is a stuttering step.                *)
(***************************************************************************)
EXTENDS Integers, Sequences, FiniteSets, TLC

\* ------------------------------------------------------------------ bounds
MaxAddr == 3
MaxN == 2
MaxOps == 3

\* --------------------------------------------------------- program constants
\* Width of size_type (size_t) and size of a pointer, of a 16-bit target:
\* the arithmetic of allocate/deallocate is the target's, modulo 2^SizeBits.
SizeBits == 16
PtrSize == 2

Threads == {1, 2}
Addr == 1..MaxAddr
Null == 0
NoPool == 0
NotHeld == -1
Counts == 0..MaxN

\* value_type: (sizeof(T), alignof(T)) of the instantiations considered
ElemTypes == { <<1, 1>>, <<4, 2>> }

Max(a, b) == IF a >= b THEN a ELSE b

RoundUp(x, a) == ((x + a - 1) \div a) * a

WordModulus == 2 ^ SizeBits

\* struct Node { union { T value; Node* next; }; Pool* pool; }
SizeofNode(ty) ==
    LET al == Max(ty[2], PtrSize)
        un == RoundUp(Max(ty[1], PtrSize), al)
    IN  RoundUp(un + PtrSize, al)

SizeofValue(ty) == ty[1]

\* n * sizeof(Node), in size_t arithmetic
AllocBytes(n, ty) == (n * SizeofNode(ty)) % WordModulus

\* the largest value of size_type
SizeMax == WordModulus - 1

\* two counts n of size_type for which n * sizeof(Node) exceeds SizeMax: the
\* smallest one and the largest
WrapCounts(ty) == { SizeMax \div SizeofNode(ty) + 1, SizeMax }

\* n * sizeof(value_type), in size_t arithmetic
DeallocBytes(n, ty) == (n * SizeofValue(ty)) % WordModulus

VARIABLES
    elemType,    \* the template argument T, as <<sizeof, alignof>>
    sentinel,    \* Pool::sentinel of each thread's thread_local pool
    poolState,   \* lifetime of each thread's pool: live, destroying, destroyed
    nodeNext,    \* Node::next of the cell at each address
    nodePool,    \* Node::pool of the cell at each address
    heap,        \* system allocator: "free", "node" (one Node) or "bulk"
    blockBytes,  \* bytes requested from ::operator new for each live block
    held,        \* n of the allocate(n) whose result a caller still holds
    pc,          \* position of each thread
    node,        \* allocate: local `node` (the `expected` of the CAS)
    desired,     \* allocate: the argument node->next, evaluated before the call
    dnode,       \* deallocate: local `node`
    cp,          \* Pool::clear: local `p`
    cnext,       \* Pool::clear: local `next`
    reqN,        \* allocate: the argument n of the call in progress
    sysDelete,   \* last sized ::operator delete: <<bytes passed, bytes requested>>
    doubleFree,  \* a block was released that the system allocator did not hold
    handouts,    \* number of callers an address is handed out to
    walkPushed,  \* cells whose push committed while Pool::clear was walking
    walkLeft,    \* cells linked at the start of the running Pool::clear, not yet released
    walkFreed,   \* cells the running Pool::clear has released
    observed,    \* the threads whose operations lastOp records
    lastOp,      \* per thread: what its last operations did, <<tag, cell>>
    dcall,       \* last deallocate(p, n) with p null or n zero, see Called
    budget,      \* per thread: the operations it may still start
    eqResult,    \* what the last evaluation of operator== returned
    oom,         \* parity of the allocate calls ended by std::bad_alloc
    shead,       \* shared/local variant: SharedPool::head
    lhead,       \* shared/local variant: LocalPool::head of each thread
    vnext,       \* shared/local variant: Node::next of the cell at each address
    vheap,       \* shared/local variant: system allocator, "free" or "node"
    vheld,       \* shared/local variant: number of callers that hold the address
    vpc,         \* shared/local variant: position of each thread
    vp,          \* shared/local variant: allocate's local `p`
    vnode,       \* shared/local variant: add_to_shared_pool's local `node`
    xcells,      \* per thread: the cells of its local list when ~LocalPool began
    published,   \* per thread: how often its ~LocalPool linked a cell into the shared list
    spc,         \* shared/local variant: position of ~SharedPool
    sp,          \* ~SharedPool: local `p`
    slinked,     \* the cells of the shared list when ~SharedPool began
    sreleased,   \* how often ~SharedPool passed a cell to ::operator delete
    sread        \* ~SharedPool read the next of a cell that was released

vars == <<elemType, sentinel, poolState, nodeNext, nodePool, heap, blockBytes,
          held, pc, node, desired, dnode, cp, cnext, reqN, sysDelete, doubleFree,
          handouts, walkPushed, walkLeft, walkFreed, observed, lastOp,
          dcall, budget, eqResult, oom,
          shead, lhead, vnext, vheap, vheld, vpc, vp, vnode,
          xcells, published, spc, sp, slinked, sreleased, sread>>

\* the state of the shared/local variant (src/unnamed/part_000) and the state
\* of the back-reference allocator (src/PoolAllocator.h) next to elemType
\* of the two destructors of the variant
exitVars == <<xcells, published>>
sdtorVars == <<spc, sp, slinked, sreleased, sread>>
variantVars == <<shead, lhead, vnext, vheap, vheld, vpc, vp, vnode, exitVars,
                 sdtorVars>>
backrefVars == <<sentinel, poolState, nodeNext, nodePool, heap, blockBytes,
                 held, pc, node, desired, dnode, cp, cnext, reqN, sysDelete,
                 doubleFree, handouts, walkPushed, walkLeft, walkFreed,
                 observed, lastOp, dcall, budget, eqResult, oom>>

poolVars == <<sentinel, nodeNext, nodePool>>
regs == <<node, desired, dnode, cp, cnext, reqN>>
ghosts == <<sysDelete, doubleFree, handouts, walkPushed, walkLeft, walkFreed,
           observed, lastOp>>

NoDelete == <<0, 0>>
NoOp == <<"none", Null>>

\* dcall while the calls of deallocate are not recorded, and before the
\* first recorded call
CallOff == <<0, 0, -1>>
NoCall == <<0, 0, 0>>

\* oom while the failures of allocate are not recorded
OomOff == -1

\* budget of a thread that may start any number of operations
NoBudget == -1

\* The cells reached from a by following next, at most k of them.
RECURSIVE ChainFrom(_, _)
ChainFrom(a, k) ==
    IF a = Null \/ k = 0 THEN <<>>
    ELSE <<a>> \o ChainFrom(nodeNext[a], k - 1)

\* The free list of thread t's pool.
Chain(t) == ChainFrom(sentinel[t], MaxAddr + 1)

Range(s) == { s[i] : i \in DOMAIN s }

Linked(t) == Range(Chain(t))

\* static thread_local Pool pool; std::atomic<Node*> sentinel = nullptr
InitWith(types, obs, call, ops, exc) ==
    /\ elemType \in types
    /\ observed = obs
    /\ dcall = call
    /\ budget = [t \in Threads |-> ops]
    /\ eqResult = "none"
    /\ oom = exc
    /\ shead = Null
    /\ lhead = [t \in Threads |-> Null]
    /\ vnext = [a \in Addr |-> Null]
    /\ vheap = [a \in Addr |-> "free"]
    /\ vheld = [a \in Addr |-> 0]
    /\ vpc = [t \in Threads |-> "idle"]
    /\ vp = [t \in Threads |-> Null]
    /\ vnode = [t \in Threads |-> Null]
    /\ xcells = [t \in Threads |-> {}]
    /\ published = [t \in Threads |-> [a \in Addr |-> 0]]
    /\ spc = "live"
    /\ sp = Null
    /\ slinked = {}
    /\ sreleased = [a \in Addr |-> 0]
    /\ sread = FALSE
    /\ sentinel = [t \in Threads |-> Null]
    /\ poolState = [t \in Threads |-> "live"]
    /\ nodeNext = [a \in Addr |-> Null]
    /\ nodePool = [a \in Addr |-> NoPool]
    /\ heap = [a \in Addr |-> "free"]
    /\ blockBytes = [a \in Addr |-> 0]
    /\ held = [a \in Addr |-> NotHeld]
    /\ pc = [t \in Threads |-> "idle"]
    /\ node = [t \in Threads |-> Null]
    /\ desired = [t \in Threads |-> Null]
    /\ dnode = [t \in Threads |-> Null]
    /\ cp = [t \in Threads |-> Null]
    /\ cnext = [t \in Threads |-> Null]
    /\ reqN = [t \in Threads |-> 0]
    /\ sysDelete = NoDelete
    /\ doubleFree = FALSE
    /\ handouts = [a \in Addr |-> 0]
    /\ walkPushed = [t \in Threads |-> {}]
    /\ walkLeft = [t \in Threads |-> {}]
    /\ walkFreed = [t \in Threads |-> {}]
    /\ lastOp = [t \in Threads |-> NoOp]

\* the calls of deallocate and the failures of allocate are not recorded,
\* the threads are not limited
InitOf(types, obs) == InitWith(types, obs, CallOff, NoBudget, OomOff)

Init == InitOf(ElemTypes, {})

\* The single-element paths do not depend on T beyond sizeof(Node): the
\* specifications of the cache run one instantiation, with the history of
\* every thread's operations recorded (InitPool) or without it (InitPlain).
InitPool == InitOf({<<4, 2>>}, Threads)

InitPlain == InitOf({<<4, 2>>}, {})

\* one instantiation, with the calls of deallocate recorded
\* one instantiation, every thread limited to MaxOps operations
InitProgress == InitWith({<<4, 2>>}, {}, CallOff, MaxOps, OomOff)

InitCalls == InitWith({<<4, 2>>}, {}, NoCall, NoBudget, OomOff)

\* one instantiation, with the failures of allocate recorded
InitFail == InitWith({<<4, 2>>}, {}, CallOff, NoBudget, 0)

\* ----------------------------------------------------------------------------
\* History bookkeeping shared by the actions (no program state).
\* lastOp[t] is <<"alloc", c>> after t's allocate(1) returned c,
\* <<"allocfree", c>> after t then passed c to deallocate(c, 1) and it
\* returned, <<"again", c>> after the allocate(1) following that returned c,
\* <<"remote", c>> after t's deallocate(c, 1) of a cell of another thread's
\* cache returned.  Any access of another thread to t's cache, and any other
\* operation of t, resets it to NoOp.

OpTouch(l, q, u) == IF u # q THEN [l EXCEPT ![q] = NoOp] ELSE l

\* only the operations of the observed threads are recorded
Track(l) == [t \in Threads |-> IF t \in observed THEN l[t] ELSE NoOp]

Walking(t) == pc[t] \in {"c_loop", "c_delete"}

\* budget after thread t started an operation
Spend(t) == [budget EXCEPT ![t] = IF @ > 0 THEN @ - 1 ELSE @]

Bump(h, a) == [h EXCEPT ![a] = IF @ < 2 THEN @ + 1 ELSE @]

\* ----------------------------------------------------------------------------
\* PoolAllocator<T>::allocate(n)

\* Variant: every non-empty request takes the cache path.
IsSingleOrMore(n) == n >= 1

\* if (n == 1), of allocate and of deallocate
IsSingle(n) == n = 1

\* Variant: the cache is not consulted, every request is a miss.
IsMissAlways(p) == TRUE

\* if (node != nullptr) ... else ...
IsMiss(p) == p = Null

\* Node* node = pool.load();
AllocLoad(t, n) ==
    /\ pc[t] = "idle"
    /\ poolState[t] = "live"
    /\ IsSingle(n)
    /\ budget[t] # 0
    /\ budget' = Spend(t)
    /\ reqN' = [reqN EXCEPT ![t] = n]
    /\ node' = [node EXCEPT ![t] = sentinel[t]]
    /\ pc' = [pc EXCEPT ![t] = IF IsMiss(sentinel[t]) THEN "a_new" ELSE "a_next"]
    /\ lastOp' = Track([lastOp EXCEPT ![t] = IF @[1] = "allocfree" THEN @ ELSE NoOp])
    /\ UNCHANGED <<variantVars, elemType, dcall, eqResult, oom, poolVars, poolState, heap, blockBytes, held,
                   desired, dnode, cp, cnext, sysDelete, doubleFree, handouts,
                   walkPushed, walkLeft, walkFreed, observed>>

\* the argument node->next of pool.compare_exchange(node, node->next),
\* evaluated once, before the call
AllocReadNext(t) ==
    /\ pc[t] = "a_next"
    /\ desired' = [desired EXCEPT ![t] = nodeNext[node[t]]]
    /\ pc' = [pc EXCEPT ![t] = "a_cas"]
    /\ UNCHANGED <<variantVars, elemType, dcall, budget, eqResult, oom, poolVars, poolState, heap, blockBytes, held,
                   node, dnode, cp, cnext, reqN, ghosts>>

\* Variant: a compare-and-swap that leaves `expected` as it was.
CasExpectedKept(q, old) == old

\* What a failed compare_exchange_weak on the sentinel of pool q leaves in
\* `expected`: the value it found in the sentinel
CasExpected(q, old) == sentinel[q]

\* Variant: the swap installs the popped cell itself, so it stays on the list.
PopDesiredStale(t) == node[t]

\* The `desired` of the compare_exchange_weak in allocate: the parameter
\* of Pool::compare_exchange, bound at the call.
PopDesired(t) == desired[t]

\* one iteration of Pool::compare_exchange called by allocate.  On success
\* allocate returns reinterpret_cast<value_type*>(node), and the caller's
\* value takes the place of `next` in the union (modelled as Null: the code
\* does not read it before deallocate writes it again).  On failure
\* compare_exchange_weak loads the sentinel into `expected`, that is `node`.
AllocCas(t) ==
    /\ pc[t] = "a_cas"
    /\ IF sentinel[t] = node[t]
       THEN /\ sentinel' = [sentinel EXCEPT ![t] = PopDesired(t)]
            /\ held' = [held EXCEPT ![node[t]] = reqN[t]]
            /\ handouts' = Bump(handouts, node[t])
            /\ nodeNext' = [nodeNext EXCEPT ![node[t]] = Null]
            /\ lastOp' = Track([lastOp EXCEPT ![t] =
                  <<IF @[1] = "allocfree" THEN "again" ELSE "alloc", node[t]>>])
            /\ node' = [node EXCEPT ![t] = Null]
            /\ desired' = [desired EXCEPT ![t] = Null]
            /\ reqN' = [reqN EXCEPT ![t] = 0]
            /\ pc' = [pc EXCEPT ![t] = "idle"]
       ELSE /\ node' = [node EXCEPT ![t] = CasExpected(t, node[t])]
            /\ UNCHANGED <<sentinel, held, handouts, nodeNext, lastOp,
                           desired, reqN, pc>>
    /\ UNCHANGED <<variantVars, elemType, dcall, budget, eqResult, oom, nodePool, poolState, heap, blockBytes, dnode, cp,
                   cnext, sysDelete, doubleFree, walkPushed, walkLeft, walkFreed, observed>>

\* The back-reference stamped on a new cell: node->pool = &pool
StampPool(t) == t

\* node = static_cast<Node*>(::operator new(sizeof(Node))); node->pool = &pool;
\* return reinterpret_cast<value_type*>(node)
AllocNew(t) ==
    /\ pc[t] = "a_new"
    /\ \E a \in Addr :
        /\ heap[a] = "free"
        /\ heap' = [heap EXCEPT ![a] = "node"]
        /\ blockBytes' = [blockBytes EXCEPT ![a] = SizeofNode(elemType)]
        /\ nodePool' = [nodePool EXCEPT ![a] = StampPool(t)]
        /\ held' = [held EXCEPT ![a] = reqN[t]]
        /\ handouts' = Bump(handouts, a)
        /\ lastOp' = Track([lastOp EXCEPT ![t] =
              <<IF @[1] = "allocfree" THEN "again" ELSE "alloc", a>>])
    /\ node' = [node EXCEPT ![t] = Null]
    /\ reqN' = [reqN EXCEPT ![t] = 0]
    /\ pc' = [pc EXCEPT ![t] = "idle"]
    /\ UNCHANGED <<variantVars, elemType, dcall, budget, eqResult, oom, sentinel, nodeNext, poolState, desired, dnode, cp,
                   cnext, sysDelete, doubleFree, walkPushed, walkLeft, walkFreed, observed>>

\* Variant: the nothrow form of ::operator new, which reports the failure
\* with a null pointer that allocate returns.
NewFailureNull(o) == o

\* ::operator new cannot satisfy the request: it throws std::bad_alloc, and
\* the exception ends allocate (there is no handler in it)
NewFailure(o) == IF o < 0 THEN o ELSE 1 - o

\* ::operator new(sizeof(Node)) throws std::bad_alloc
AllocNewFails(t) ==
    /\ pc[t] = "a_new"
    /\ oom' = NewFailure(oom)
    /\ node' = [node EXCEPT ![t] = Null]
    /\ reqN' = [reqN EXCEPT ![t] = 0]
    /\ pc' = [pc EXCEPT ![t] = "idle"]
    /\ lastOp' = Track([lastOp EXCEPT ![t] = NoOp])
    /\ UNCHANGED <<variantVars, elemType, dcall, budget, eqResult, poolVars, poolState, heap, blockBytes, held,
                   desired, dnode, cp, cnext, sysDelete, doubleFree, handouts,
                   walkPushed, walkLeft, walkFreed, observed>>

\* n != 1: return static_cast<value_type*>(::operator new(n * sizeof(Node)));
AllocBulk(t, n) ==
    /\ pc[t] = "idle"
    /\ poolState[t] = "live"
    /\ ~IsSingle(n)
    /\ \E a \in Addr :
        /\ heap[a] = "free"
        /\ heap' = [heap EXCEPT ![a] = "bulk"]
        /\ blockBytes' = [blockBytes EXCEPT ![a] = AllocBytes(n, elemType)]
        /\ held' = [held EXCEPT ![a] = n]
        /\ handouts' = Bump(handouts, a)
    /\ lastOp' = Track([lastOp EXCEPT ![t] = NoOp])
    /\ UNCHANGED <<variantVars, elemType, dcall, budget, eqResult, oom, poolVars, poolState, pc, regs, sysDelete,
                   doubleFree, walkPushed, walkLeft, walkFreed, observed>>

\* n != 1: ::operator new(n * sizeof(Node)) throws std::bad_alloc
AllocBulkFails(t, n) ==
    /\ pc[t] = "idle"
    /\ poolState[t] = "live"
    /\ ~IsSingle(n)
    /\ oom' = NewFailure(oom)
    /\ lastOp' = Track([lastOp EXCEPT ![t] = NoOp])
    /\ UNCHANGED <<variantVars, elemType, dcall, budget, eqResult, poolVars, poolState, heap, blockBytes, held, pc,
                   regs, sysDelete, doubleFree, handouts, walkPushed, walkLeft, walkFreed, observed>>

\* ----------------------------------------------------------------------------
\* PoolAllocator<T>::deallocate(p, n)

\* Variant: the cell is pushed onto the calling thread's cache.
PushTargetCaller(t, c) == t

\* The cache a deallocated cell is pushed onto: node->pool
PushTarget(t, c) == nodePool[c]

\* Variant: the swap installs node->next, so the cell is never linked.
PushDesiredNext(c) == nodeNext[c]

\* The `desired` of the compare_exchange_weak in deallocate: node
PushDesired(c) == c

\* Variant: only a null pointer makes the call a no-op.
IsNoopPtrOnly(p, n) == p = Null

\* if (p == nullptr || n == 0)
IsNoop(p, n) == p = Null \/ n = 0

\* dcall after a call deallocate(p, n): where the calls are recorded, the
\* last call that passed a null pointer or a zero count, as
\* <<0 if p was null else 1, 0 if n was zero else 1, parity of such calls>>
Called(p, n) ==
    IF dcall[3] >= 0 /\ (p = Null \/ n = 0)
    THEN <<IF p = Null THEN 0 ELSE 1, IF n = 0 THEN 0 ELSE 1, 1 - dcall[3]>>
    ELSE dcall

\* if (p == nullptr || n == 0) { return; }
\* p is null or a pointer the caller holds; the caller gives the pointer up
\* when n is the count it was allocated with.
DeallocNoop(t, p, n) ==
    /\ pc[t] = "idle"
    /\ poolState[t] = "live"
    /\ p # Null => held[p] # NotHeld
    /\ IsNoop(p, n)
    /\ dcall' = Called(p, n)
    /\ IF p # Null /\ held[p] = n
       THEN /\ held' = [held EXCEPT ![p] = NotHeld]
            /\ handouts' = [handouts EXCEPT ![p] = 0]
       ELSE UNCHANGED <<held, handouts>>
    /\ lastOp' = Track([lastOp EXCEPT ![t] = NoOp])
    /\ UNCHANGED <<variantVars, elemType, budget, eqResult, oom, poolVars, poolState, heap,
                   blockBytes, pc, regs, sysDelete, doubleFree, walkPushed,
                   walkLeft, walkFreed, observed>>

\* What a load of the sentinel of pool q can return.  The pool of a
\* terminated thread is destroyed and its storage gone: reading it is
\* undefined, any pointer may come back.
LoadResults(q) ==
    IF poolState[q] = "destroyed" THEN Addr \cup {Null} ELSE {sentinel[q]}

\* n == 1: Node* node = reinterpret_cast<Node*>(p);
\*         node->next = node->pool->load();
DeallocLoad(t, c) ==
    /\ pc[t] = "idle"
    /\ poolState[t] = "live"
    /\ held[c] # NotHeld
    /\ ~IsNoop(c, held[c])
    /\ IsSingle(held[c])
    /\ dcall' = Called(c, held[c])
    /\ budget[t] # 0
    /\ budget' = Spend(t)
    /\ LET q == PushTarget(t, c) IN
        /\ \E v \in LoadResults(q) : nodeNext' = [nodeNext EXCEPT ![c] = v]
        /\ lastOp' = Track([OpTouch(lastOp, q, t) EXCEPT
              ![t] = IF @ \in {<<"alloc", c>>, <<"again", c>>}
                     THEN <<"alloc", c>> ELSE NoOp])
    /\ held' = [held EXCEPT ![c] = NotHeld]
    /\ handouts' = [handouts EXCEPT ![c] = 0]
    /\ dnode' = [dnode EXCEPT ![t] = c]
    /\ pc' = [pc EXCEPT ![t] = "d_cas"]
    /\ UNCHANGED <<variantVars, elemType, eqResult, oom, sentinel, nodePool, poolState,
                   heap, blockBytes, node, desired, cp, cnext, reqN, sysDelete,
                   doubleFree, walkPushed, walkLeft, walkFreed, observed>>

\* one iteration of Pool::compare_exchange(node->next, node) on a pool that
\* exists: success links the cell and deallocate returns, failure loads the
\* sentinel into `expected`, that is node->next
DeallocCasLive(t) ==
    LET c == dnode[t]
        q == PushTarget(t, c)
    IN
    /\ pc[t] = "d_cas"
    /\ poolState[q] # "destroyed"
    /\ IF sentinel[q] = nodeNext[c]
       THEN /\ sentinel' = [sentinel EXCEPT ![q] = PushDesired(c)]
            /\ walkPushed' = [walkPushed EXCEPT
                                 ![q] = IF Walking(q) THEN @ \cup {c} ELSE @]
            /\ lastOp' = Track([OpTouch(lastOp, q, t) EXCEPT
                  ![t] = IF q # t THEN <<"remote", c>>
                         ELSE IF @ = <<"alloc", c>> THEN <<"allocfree", c>>
                         ELSE NoOp])
            /\ dnode' = [dnode EXCEPT ![t] = Null]
            /\ pc' = [pc EXCEPT ![t] = "idle"]
            /\ UNCHANGED nodeNext
       ELSE /\ nodeNext' = [nodeNext EXCEPT ![c] = CasExpected(q, nodeNext[c])]
            /\ lastOp' = Track(OpTouch(lastOp, q, t))
            /\ UNCHANGED <<sentinel, walkPushed, dnode, pc>>
    /\ UNCHANGED <<variantVars, elemType, dcall, budget, eqResult, oom, nodePool, poolState, heap, blockBytes, held, node,
                   desired, cp, cnext, reqN, sysDelete, doubleFree, handouts,
                   walkLeft, walkFreed, observed>>

\* the same iteration on the destroyed pool of a terminated thread
\* (undefined behaviour): the compare-and-swap may report success, and its
\* store lands in storage that is no longer the pool's, or report failure
\* and leave any pointer in node->next
DeallocCasDestroyed(t) ==
    LET c == dnode[t]
        q == PushTarget(t, c)
    IN
    /\ pc[t] = "d_cas"
    /\ poolState[q] = "destroyed"
    /\ \/ /\ dnode' = [dnode EXCEPT ![t] = Null]
          /\ pc' = [pc EXCEPT ![t] = "idle"]
          /\ UNCHANGED nodeNext
       \/ /\ \E v \in LoadResults(q) :
                /\ v # nodeNext[c]
                /\ nodeNext' = [nodeNext EXCEPT ![c] = v]
          /\ UNCHANGED <<dnode, pc>>
    /\ lastOp' = Track([lastOp EXCEPT ![t] = NoOp])
    /\ UNCHANGED <<variantVars, elemType, dcall, budget, eqResult, oom, sentinel, nodePool, poolState, heap, blockBytes,
                   held, node, desired, cp, cnext, reqN, sysDelete, doubleFree,
                   handouts, walkPushed, walkLeft, walkFreed, observed>>

\* The byte count deallocate passes to the sized ::operator delete:
\* n * sizeof(value_type)
ReleaseBytes(n, ty) == DeallocBytes(n, ty)

\* n != 1: ::operator delete(static_cast<void*>(p), n * sizeof(value_type));
\* p is a pointer the caller holds and n the count it was allocated with, or 0
DeallocBulk(t, c, n) ==
    /\ pc[t] = "idle"
    /\ poolState[t] = "live"
    /\ held[c] # NotHeld
    /\ n \in {held[c], 0}
    /\ ~IsNoop(c, n)
    /\ ~IsSingle(n)
    /\ dcall' = Called(c, n)
    /\ held' = [held EXCEPT ![c] = NotHeld]
    /\ handouts' = [handouts EXCEPT ![c] = 0]
    /\ heap' = [heap EXCEPT ![c] = "free"]
    /\ blockBytes' = [blockBytes EXCEPT ![c] = 0]
    /\ sysDelete' = <<ReleaseBytes(n, elemType), blockBytes[c]>>
    /\ doubleFree' = (doubleFree \/ heap[c] # "bulk")
    /\ lastOp' = Track([lastOp EXCEPT ![t] = NoOp])
    /\ UNCHANGED <<variantVars, elemType, budget, eqResult, oom, poolVars, poolState, pc, regs,
                   walkPushed, walkLeft, walkFreed, observed>>

\* ----------------------------------------------------------------------------
\* Pool::clear, called by PoolAllocator<T>::clear and by Pool::~Pool

\* Node* p = sentinel.load(std::memory_order_consume);
ClearBegin(t, state) ==
    /\ pc[t] = "idle"
    /\ poolState[t] = "live"
    /\ poolState' = [poolState EXCEPT ![t] = state]
    /\ cp' = [cp EXCEPT ![t] = sentinel[t]]
    /\ pc' = [pc EXCEPT ![t] = "c_loop"]
    /\ walkLeft' = [walkLeft EXCEPT ![t] = Linked(t)]
    /\ walkPushed' = [walkPushed EXCEPT ![t] = {}]
    /\ walkFreed' = [walkFreed EXCEPT ![t] = {}]
    /\ lastOp' = Track([lastOp EXCEPT ![t] = NoOp])
    /\ UNCHANGED <<variantVars, elemType, dcall, budget, eqResult, oom, poolVars, heap, blockBytes, held, node, desired,
                   dnode, cnext, reqN, sysDelete, doubleFree, handouts, observed>>

\* PoolAllocator<T>::clear() { pool.clear(); }
Clear(t) == ClearBegin(t, "live")

\* the owning thread terminates: ~Pool() { clear(); }
ThreadExit(t) == ClearBegin(t, "destroying")

\* Variant: the walk stores the cell it is about to release.
ClearStoredSelf(t) == cp[t]

\* What Pool::clear stores into the sentinel before it releases p: next
ClearStored(t) == nodeNext[cp[t]]

\* while (p != nullptr) { Node* next = p->next;
\*                        sentinel.store(next, std::memory_order_relaxed);
ClearStore(t) ==
    /\ pc[t] = "c_loop"
    /\ cp[t] # Null
    /\ cnext' = [cnext EXCEPT ![t] = nodeNext[cp[t]]]
    /\ sentinel' = [sentinel EXCEPT ![t] = ClearStored(t)]
    /\ pc' = [pc EXCEPT ![t] = "c_delete"]
    /\ UNCHANGED <<variantVars, elemType, dcall, budget, eqResult, oom, nodeNext, nodePool, poolState, heap, blockBytes,
                   held, node, desired, dnode, cp, reqN, ghosts>>

\* ::operator delete(static_cast<void*>(p)); p = next; }
ClearDelete(t) ==
    /\ pc[t] = "c_delete"
    /\ heap' = [heap EXCEPT ![cp[t]] = "free"]
    /\ blockBytes' = [blockBytes EXCEPT ![cp[t]] = 0]
    /\ nodeNext' = [nodeNext EXCEPT ![cp[t]] = Null]
    /\ nodePool' = [nodePool EXCEPT ![cp[t]] = NoPool]
    /\ doubleFree' = (doubleFree \/ heap[cp[t]] # "node")
    /\ walkLeft' = [walkLeft EXCEPT ![t] = @ \ {cp[t]}]
    /\ walkFreed' = [walkFreed EXCEPT ![t] = @ \cup {cp[t]}]
    /\ cp' = [cp EXCEPT ![t] = cnext[t]]
    /\ cnext' = [cnext EXCEPT ![t] = Null]
    /\ pc' = [pc EXCEPT ![t] = "c_loop"]
    /\ UNCHANGED <<variantVars, elemType, dcall, budget, eqResult, oom, sentinel, poolState, held, node, desired, dnode,
                   reqN, sysDelete, handouts, walkPushed, observed, lastOp>>

\* the loop of Pool::clear ends (p == nullptr): PoolAllocator<T>::clear
\* returns, or ~Pool ends and the pool is destroyed
ClearEnd(t) ==
    /\ pc[t] = "c_loop"
    /\ cp[t] = Null
    /\ IF poolState[t] = "destroying"
       THEN /\ poolState' = [poolState EXCEPT ![t] = "destroyed"]
            /\ pc' = [pc EXCEPT ![t] = "exited"]
            /\ UNCHANGED <<walkPushed, walkLeft, walkFreed>>
       ELSE /\ pc' = [pc EXCEPT ![t] = "idle"]
            /\ walkPushed' = [walkPushed EXCEPT ![t] = {}]
            /\ walkLeft' = [walkLeft EXCEPT ![t] = {}]
            /\ walkFreed' = [walkFreed EXCEPT ![t] = {}]
            /\ UNCHANGED poolState
    /\ UNCHANGED <<variantVars, elemType, dcall, budget, eqResult, oom, poolVars, heap, blockBytes, held, regs, sysDelete,
                   doubleFree, handouts, observed, lastOp>>

\* ----------------------------------------------------------------------------
\* operator==(const PoolAllocator<T1>&, const PoolAllocator<T2>&)

\* A PoolAllocator object has no members: it is told from another one by
\* the thread that constructed it and by its element type.
Instances == Threads \X ElemTypes

\* Variant: allocators are equal when they were made by the same thread for
\* the same element type.
OperatorEqSameOrigin(lhs, rhs) == lhs = rhs

\* return true;
OperatorEq(lhs, rhs) == TRUE

\* thread t evaluates lhs == rhs
Compare(t, lhs, rhs) ==
    /\ pc[t] = "idle"
    /\ poolState[t] = "live"
    /\ eqResult' = IF OperatorEq(lhs, rhs) THEN "true" ELSE "false"
    /\ UNCHANGED <<variantVars, elemType, dcall, budget, oom, poolVars, poolState, heap,
                   blockBytes, held, pc, regs, ghosts>>

\* ----------------------------------------------------------------------------
\* The shared/local variant of PoolAllocator<T> (src/unnamed/part_000): one
\* SharedPool for all threads and one thread_local LocalPool per thread;
\* union Node { Node* next; T value; } has no back-reference.

\* The cells reached from a by following next, at most k of them.
RECURSIVE VChainFrom(_, _)
VChainFrom(a, k) ==
    IF a = Null \/ k = 0 THEN <<>>
    ELSE <<a>> \o VChainFrom(vnext[a], k - 1)

SharedChain == VChainFrom(shead, MaxAddr + 1)

LocalChain(t) == VChainFrom(lhead[t], MaxAddr + 1)

\* reuse_from_local_pool(), given the local head h:
\* Node* p = local_pool; if (p != nullptr) { local_pool = p->next; }
ReuseHead(h) == IF h # Null THEN vnext[h] ELSE Null

\* allocate(1) with an empty local pool, move_from_shared_to_local_pool():
\* local_pool = shared_pool.load();
VMoveLoad(t) ==
    /\ vpc[t] = "idle"
    /\ lhead[t] = Null
    /\ lhead' = [lhead EXCEPT ![t] = shead]
    /\ vpc' = [vpc EXCEPT ![t] = "v_take"]
    /\ UNCHANGED <<elemType, backrefVars, exitVars, sdtorVars, shead, vnext, vheap, vheld, vp, vnode>>

\* one iteration of shared_pool.compare_exchange(local_pool, nullptr), whose
\* `expected` is the local head itself; on success the whole shared list is
\* the local list and reuse_from_local_pool() takes its first cell
VTake(t) ==
    /\ vpc[t] = "v_take"
    /\ IF shead = lhead[t]
       THEN /\ shead' = Null
            /\ vp' = [vp EXCEPT ![t] = lhead[t]]
            /\ lhead' = [lhead EXCEPT ![t] = ReuseHead(lhead[t])]
            /\ vpc' = [vpc EXCEPT ![t] = "v_give"]
       ELSE /\ lhead' = [lhead EXCEPT ![t] = shead]
            /\ UNCHANGED <<shead, vp, vpc>>
    /\ UNCHANGED <<elemType, backrefVars, exitVars, sdtorVars, vnext, vheap, vheld, vnode>>

\* allocate(1) with a local pool that holds cells:
\* move_from_shared_to_local_pool() does nothing, reuse_from_local_pool()
VReuse(t) ==
    /\ vpc[t] = "idle"
    /\ lhead[t] # Null
    /\ vp' = [vp EXCEPT ![t] = lhead[t]]
    /\ lhead' = [lhead EXCEPT ![t] = ReuseHead(lhead[t])]
    /\ vpc' = [vpc EXCEPT ![t] = "v_give"]
    /\ UNCHANGED <<elemType, backrefVars, exitVars, sdtorVars, shead, vnext, vheap, vheld, vnode>>

\* where allocate goes on after move_from_local_to_shared_pool():
\* if (p != nullptr) return p; else alloc(n)
AfterGive(t) == IF vp[t] # Null THEN "idle" ELSE "v_new"

\* allocate returns p to its caller
Returned(t) == IF vp[t] # Null THEN [vheld EXCEPT ![vp[t]] = IF @ < 2 THEN @ + 1 ELSE @]
               ELSE vheld

\* move_from_local_to_shared_pool(): Node* null_ptr = nullptr;
\* shared_pool.try_compare_exchange(null_ptr, local_pool) succeeds
VGive(t) ==
    /\ vpc[t] = "v_give"
    /\ shead = Null
    /\ shead' = lhead[t]
    /\ vpc' = [vpc EXCEPT ![t] = "v_reset"]
    /\ UNCHANGED <<elemType, backrefVars, exitVars, sdtorVars, lhead, vnext, vheap, vheld, vp, vnode>>

\* the same compare_exchange_weak fails, because the shared list holds cells
\* or spuriously: the local list stays; if (p != nullptr) return p;
VGiveFails(t) ==
    /\ vpc[t] = "v_give"
    /\ vpc' = [vpc EXCEPT ![t] = AfterGive(t)]
    /\ vheld' = Returned(t)
    /\ vp' = [vp EXCEPT ![t] = Null]
    /\ UNCHANGED <<elemType, backrefVars, exitVars, sdtorVars, shead, lhead, vnext, vheap, vnode>>

\* Variant: the local pool keeps its head after it gave the list away.
GivenLocalKept(t) == lhead[t]

\* after the successful swap: local_pool = nullptr;
GivenLocal(t) == Null

\* local_pool = nullptr; if (p != nullptr) return p;
VReset(t) ==
    /\ vpc[t] = "v_reset"
    /\ lhead' = [lhead EXCEPT ![t] = GivenLocal(t)]
    /\ vpc' = [vpc EXCEPT ![t] = AfterGive(t)]
    /\ vheld' = Returned(t)
    /\ vp' = [vp EXCEPT ![t] = Null]
    /\ UNCHANGED <<elemType, backrefVars, exitVars, sdtorVars, shead, vnext, vheap, vnode>>

\* alloc(1): return static_cast<T*>(::operator new(n * sizeof(Node)));
VNew(t) ==
    /\ vpc[t] = "v_new"
    /\ \E a \in Addr :
        /\ vheap[a] = "free"
        /\ vheap' = [vheap EXCEPT ![a] = "node"]
        /\ vheld' = [vheld EXCEPT ![a] = IF @ < 2 THEN @ + 1 ELSE @]
    /\ vpc' = [vpc EXCEPT ![t] = "idle"]
    /\ UNCHANGED <<elemType, backrefVars, exitVars, sdtorVars, shead, lhead, vnext, vp, vnode>>

\* alloc(1): ::operator new throws std::bad_alloc
VNewFails(t) ==
    /\ vpc[t] = "v_new"
    /\ vpc' = [vpc EXCEPT ![t] = "idle"]
    /\ UNCHANGED <<elemType, backrefVars, exitVars, sdtorVars, shead, lhead, vnext, vheap, vheld,
                   vp, vnode>>

\* deallocate(p, 1), add_to_shared_pool(p), of a cell the caller holds:
\* Node* node = reinterpret_cast<Node*>(p); node->next = shared_pool.load();
VPushLoad(t, c) ==
    /\ vpc[t] = "idle"
    /\ vheld[c] > 0
    /\ vheld' = [vheld EXCEPT ![c] = 0]
    /\ vnext' = [vnext EXCEPT ![c] = shead]
    /\ vnode' = [vnode EXCEPT ![t] = c]
    /\ vpc' = [vpc EXCEPT ![t] = "v_push"]
    /\ UNCHANGED <<elemType, backrefVars, exitVars, sdtorVars, shead, lhead, vheap, vp>>

\* one iteration of shared_pool.compare_exchange(node->next, node)
VPushCas(t) ==
    /\ vpc[t] = "v_push"
    /\ IF shead = vnext[vnode[t]]
       THEN /\ shead' = vnode[t]
            /\ vnode' = [vnode EXCEPT ![t] = Null]
            /\ vpc' = [vpc EXCEPT ![t] = "idle"]
            /\ UNCHANGED vnext
       ELSE /\ vnext' = [vnext EXCEPT ![vnode[t]] = shead]
            /\ UNCHANGED <<shead, vnode, vpc>>
    /\ UNCHANGED <<elemType, backrefVars, exitVars, sdtorVars, lhead, vheap, vheld, vp>>

\* ~LocalPool() of thread t's local_pool, run when the thread terminates.

\* how often a occurs in the list s
Occurs(s, a) == Cardinality({ i \in DOMAIN s : s[i] = a })

\* the count of a cell, one higher when this step (of t's ~LocalPool) links
\* the cell into the shared list
Publish(t, newShared, oldShared) ==
    [published EXCEPT ![t] =
        [a \in Addr |-> IF Occurs(newShared, a) > Occurs(oldShared, a) /\ @[a] < 2
                        THEN @[a] + 1 ELSE @[a]]]

\* where ~LocalPool goes on with the local head h: while (head != nullptr)
ExitLoop(h) == IF h # Null THEN "x_pop" ELSE "exited"

\* Node* null_ptr = nullptr; shared.try_compare_exchange(null_ptr, head)
\* succeeds: the whole local list is the shared list
VExitTry(t) ==
    /\ vpc[t] = "idle"
    /\ spc = "live"
    /\ shead = Null
    /\ shead' = lhead[t]
    /\ xcells' = [xcells EXCEPT ![t] = Range(LocalChain(t))]
    /\ published' = Publish(t, LocalChain(t), SharedChain)
    /\ vpc' = [vpc EXCEPT ![t] = "exited"]
    /\ UNCHANGED <<elemType, backrefVars, sdtorVars, lhead, vnext, vheap, vheld,
                   vp, vnode>>

\* the same compare_exchange_weak fails, because the shared list holds cells
\* or spuriously
VExitTryFails(t) ==
    /\ vpc[t] = "idle"
    /\ spc = "live"
    /\ xcells' = [xcells EXCEPT ![t] = Range(LocalChain(t))]
    /\ vpc' = [vpc EXCEPT ![t] = ExitLoop(lhead[t])]
    /\ UNCHANGED <<elemType, backrefVars, sdtorVars, published, shead, lhead,
                   vnext, vheap, vheld, vp, vnode>>

\* Variant: head is read from p->next after p->next was overwritten.
ExitRestLate(p) == shead

\* Node* p = head; head = p->next;
ExitRest(p) == vnext[p]

\* Node* p = head; head = p->next; p->next = shared.load();
VExitPop(t) ==
    /\ vpc[t] = "x_pop"
    /\ vp' = [vp EXCEPT ![t] = lhead[t]]
    /\ lhead' = [lhead EXCEPT ![t] = ExitRest(lhead[t])]
    /\ vnext' = [vnext EXCEPT ![lhead[t]] = shead]
    /\ vpc' = [vpc EXCEPT ![t] = "x_push"]
    /\ UNCHANGED <<elemType, backrefVars, exitVars, sdtorVars, shead, vheap,
                   vheld, vnode>>

\* one iteration of shared.compare_exchange(p->next, p)
VExitPush(t) ==
    /\ vpc[t] = "x_push"
    /\ IF shead = vnext[vp[t]]
       THEN /\ shead' = vp[t]
            /\ published' = Publish(t, VChainFrom(vp[t], MaxAddr + 1), SharedChain)
            /\ vp' = [vp EXCEPT ![t] = Null]
            /\ vpc' = [vpc EXCEPT ![t] = ExitLoop(lhead[t])]
            /\ UNCHANGED vnext
       ELSE /\ vnext' = [vnext EXCEPT ![vp[t]] = shead]
            /\ UNCHANGED <<shead, published, vp, vpc>>
    /\ UNCHANGED <<elemType, backrefVars, sdtorVars, xcells, lhead, vheap, vheld,
                   vnode>>

\* ~SharedPool() of shared_pool, run when the program terminates.

\* where ~SharedPool goes on with p: while (p != nullptr)
SDtorLoop(p) == IF p # Null THEN "s_cas" ELSE "done"

\* what the read of p->next can yield: the next of the cell, or any pointer
\* once the cell was released to the system
SDtorNext(p) == IF vheap[p] = "node" THEN {vnext[p]} ELSE Addr \cup {Null}

\* Node* p = head.load(); while (p != nullptr)
SDtorLoad ==
    /\ spc = "live"
    /\ sp' = shead
    /\ slinked' = Range(SharedChain)
    /\ spc' = SDtorLoop(shead)
    /\ UNCHANGED <<elemType, backrefVars, exitVars, sreleased, sread, shead,
                   lhead, vnext, vheap, vheld, vpc, vp, vnode>>

\* head.compare_exchange_weak(p, p->next), whose result is not looked at:
\* head becomes p->next if it is p, otherwise p becomes head
SDtorCas ==
    /\ spc = "s_cas"
    /\ sread' = (sread \/ vheap[sp] = "free")
    /\ IF shead = sp
       THEN /\ \E d \in SDtorNext(sp) : shead' = d
            /\ UNCHANGED sp
       ELSE /\ sp' = shead
            /\ UNCHANGED shead
    /\ spc' = "s_delete"
    /\ UNCHANGED <<elemType, backrefVars, exitVars, slinked, sreleased, lhead,
                   vnext, vheap, vheld, vpc, vp, vnode>>

\* the same compare_exchange_weak fails spuriously: head and p stay
SDtorCasSpurious ==
    /\ spc = "s_cas"
    /\ shead = sp
    /\ sread' = (sread \/ vheap[sp] = "free")
    /\ spc' = "s_delete"
    /\ UNCHANGED <<elemType, backrefVars, exitVars, sp, slinked, sreleased,
                   shead, lhead, vnext, vheap, vheld, vpc, vp, vnode>>

\* ::operator delete(static_cast<void*>(p));
SDtorDelete ==
    /\ spc = "s_delete"
    /\ sreleased' = [sreleased EXCEPT ![sp] = IF @ < 2 THEN @ + 1 ELSE @]
    /\ vheap' = [vheap EXCEPT ![sp] = "free"]
    /\ spc' = "s_load"
    /\ UNCHANGED <<elemType, backrefVars, exitVars, sp, slinked, sread, shead,
                   lhead, vnext, vheld, vpc, vp, vnode>>

\* p = head.load(); while (p != nullptr)
SDtorReload ==
    /\ spc = "s_load"
    /\ sp' = shead
    /\ spc' = SDtorLoop(shead)
    /\ UNCHANGED <<elemType, backrefVars, exitVars, slinked, sreleased, sread,
                   shead, lhead, vnext, vheap, vheld, vpc, vp, vnode>>

\* ----------------------------------------------------------------------------
\* Specifications

\* the shared/local variant: allocate(1) and deallocate(p, 1) on every thread
NextVariant ==
    \E t \in Threads :
        \/ VMoveLoad(t)
        \/ VTake(t)
        \/ VReuse(t)
        \/ VGive(t)
        \/ VGiveFails(t)
        \/ VReset(t)
        \/ VNew(t)
        \/ VNewFails(t)
        \/ \E c \in Addr : VPushLoad(t, c)
        \/ VPushCas(t)

SpecVariant == InitPlain /\ [][NextVariant]_vars

\* the same, and threads that terminate: ~LocalPool of their local_pool
LocalPoolDtor(t) ==
    \/ VExitTry(t)
    \/ VExitTryFails(t)
    \/ VExitPop(t)
    \/ VExitPush(t)

NextExit ==
    \/ NextVariant
    \/ \E t \in Threads : LocalPoolDtor(t)

SpecExit == InitPlain /\ [][NextExit]_vars

\* the variant up to the end of the program: allocate(1) and deallocate(p, 1)
\* on every thread, then ~SharedPool, while threads that still run go on
\* with deallocate(p, 1)
SharedPoolDtor ==
    \/ SDtorLoad
    \/ SDtorCas
    \/ SDtorCasSpurious
    \/ SDtorDelete
    \/ SDtorReload

NextShared ==
    \/ spc = "live" /\ NextVariant
    \/ SharedPoolDtor
    \/ /\ spc \notin {"live", "done"}
       /\ \E t \in Threads :
             \/ \E c \in Addr : VPushLoad(t, c)
             \/ VPushCas(t)

SpecShared == InitPlain /\ [][NextShared]_vars

Allocate1(t) ==
    \/ \E n \in Counts : AllocLoad(t, n)
    \/ AllocReadNext(t)
    \/ AllocCas(t)
    \/ AllocNew(t)
    \/ AllocNewFails(t)

Deallocate1(t) == (\E c \in Addr : DeallocLoad(t, c)) \/ DeallocCasLive(t)

ClearWalk(t) == ClearStore(t) \/ ClearDelete(t) \/ ClearEnd(t)

Bulk(t) ==
    \/ \E n \in Counts : AllocBulk(t, n) \/ AllocBulkFails(t, n)
    \/ \E c \in Addr, n \in Counts : DeallocBulk(t, c, n)
    \/ \E p \in Addr \cup {Null}, n \in Counts : DeallocNoop(t, p, n)

\* allocate(1) and deallocate(p, 1) only: no clear, no thread ends
NextPool == \E t \in Threads : Allocate1(t) \/ Deallocate1(t)

SpecPool == InitPool /\ [][NextPool]_vars

\* the steps that continue an operation thread t has started
Finish(t) ==
    \/ AllocReadNext(t)
    \/ AllocCas(t)
    \/ AllocNew(t)
    \/ AllocNewFails(t)
    \/ DeallocCasLive(t)

\* allocate(1) and deallocate(p, 1), finitely many on every thread.  Thread 1
\* keeps being scheduled while it is inside an operation; thread 2 may stop
\* for ever at any point, also inside an operation.  A compare_exchange_weak
\* does not fail spuriously for ever.
SpecProgress == InitProgress /\ [][NextPool]_vars /\ WF_vars(Finish(1))

\* allocate(1), deallocate(p, 1), clear() and threads ending
NextLife ==
    \E t \in Threads :
        \/ Allocate1(t)
        \/ Deallocate1(t)
        \/ DeallocCasDestroyed(t)
        \/ Clear(t)
        \/ ThreadExit(t)
        \/ ClearWalk(t)

SpecLife == InitPlain /\ [][NextLife]_vars

\* allocate(1), deallocate(p, 1) and clear(); no thread ends
NextClear ==
    \E t \in Threads : Allocate1(t) \/ Deallocate1(t) \/ Clear(t) \/ ClearWalk(t)

SpecClear == InitPlain /\ [][NextClear]_vars

\* bulk requests next to allocate(1) and deallocate(p, 1)
NextBulk == \E t \in Threads : Allocate1(t) \/ Deallocate1(t) \/ Bulk(t)

SpecBulk == InitPlain /\ [][NextBulk]_vars

\* the calls of deallocate recorded: deallocate(p, n) with any arguments on
\* every thread, allocate(1) on thread 2 and allocate(n), n != 1, on thread 1
NextCalls ==
    \E t \in Threads :
        \/ t = 2 /\ Allocate1(t)
        \/ Deallocate1(t)
        \/ \E c \in Addr, n \in Counts : DeallocBulk(t, c, n)
        \/ \E p \in Addr \cup {Null}, n \in Counts : DeallocNoop(t, p, n)
        \/ \E n \in Counts : t = 1 /\ (AllocBulk(t, n) \/ AllocBulkFails(t, n))

SpecCalls == InitCalls /\ [][NextCalls]_vars

\* the failures of allocate recorded: allocate(n) on every thread,
\* deallocate(p, 1) on thread 2, deallocate(p, n) of bulk blocks
NextFail ==
    \E t \in Threads :
        \/ Allocate1(t)
        \/ t = 2 /\ Deallocate1(t)
        \/ \E n \in Counts : AllocBulk(t, n) \/ AllocBulkFails(t, n)
        \/ \E c \in Addr, n \in Counts : DeallocBulk(t, c, n)

SpecFail == InitFail /\ [][NextFail]_vars

\* bulk requests alone, for every T considered
NextSizes == \E t \in Threads : Bulk(t)

SpecSizes == Init /\ [][NextSizes]_vars

\* bulk requests alone, for every T considered and with counts up to the
\* largest size_type
NextOverflow ==
    \E t \in Threads :
        \E n \in Counts \cup WrapCounts(elemType) :
            \/ AllocBulk(t, n)
            \/ AllocBulkFails(t, n)
            \/ \E c \in Addr : DeallocBulk(t, c, n)

SpecOverflow == Init /\ [][NextOverflow]_vars

\* allocate(1), deallocate(p, 1) and comparisons of allocators on every
\* thread, clear() on thread 1
NextEq ==
    \E t \in Threads :
        \/ Allocate1(t)
        \/ Deallocate1(t)
        \/ t = 1 /\ (Clear(t) \/ ClearWalk(t))
        \/ \E lhs, rhs \in Instances : Compare(t, lhs, rhs)

SpecEq == InitPlain /\ [][NextEq]_vars

\* every operation
Next ==
    \E t \in Threads :
        \/ \E lhs, rhs \in Instances : Compare(t, lhs, rhs)
        \/ Allocate1(t)
        \/ Deallocate1(t)
        \/ DeallocCasDestroyed(t)
        \/ Clear(t)
        \/ ThreadExit(t)
        \/ ClearWalk(t)
        \/ Bulk(t)

Spec == Init /\ [][Next]_vars

\* ----------------------------------------------------------------------------
\* Properties

InFlight(a) == \E t \in Threads : pc[t] = "d_cas" /\ dnode[t] = a

IsLinked(a) == nodePool[a] \in Threads /\ a \in Linked(nodePool[a])

\* A cell that exists and that nothing can reach any more.
Lost(a) ==
    /\ heap[a] = "node"
    /\ held[a] = NotHeld
    /\ ~InFlight(a)
    /\ ~IsLinked(a)

Places(a) ==
    (IF held[a] # NotHeld THEN 1 ELSE 0)
        + Cardinality({t \in Threads : pc[t] = "d_cas" /\ dnode[t] = a})
        + Cardinality({t \in Threads : a \in Linked(t)})

\* C1: under allocate(1)/deallocate(p,1) alone, every cell obtained from the
\* system allocator is in exactly one place: held by a caller, in flight
\* inside a deallocate, or linked in the free list of its back-reference
\* cache (a hit removes from the list only the cell it returns).
C1_NoCellLost ==
    \A a \in Addr : heap[a] = "node" => Places(a) = 1 /\ ~Lost(a)

\* C2: an address returned by allocate(1) is not returned by another
\* allocate(1) before it has been passed to deallocate.
C2_NoDoubleHandout == \A a \in Addr : handouts[a] <= 1

\* C2 witness: a contended pop has happened (it left a cell behind) and its
\* result is held.
C2_Witness ==
    \E a, b \in Addr :
        /\ Lost(a)
        /\ held[b] = 1
        /\ handouts[b] = 1
        /\ \E t \in Threads : lastOp[t] = <<"alloc", b>>

AllocReturns(t) == pc[t] \in {"a_cas", "a_new"} /\ pc'[t] = "idle"

\* C3: the allocate(1) that follows p = allocate(1); deallocate(p, 1) on the
\* same thread, with no access of another thread to that thread's cache in
\* between, is a hit (no call of the system allocator) and returns p.
C3_RoundTrip ==
    [][\A t \in Threads :
          (lastOp[t][1] = "allocfree" /\ AllocReturns(t))
              => /\ pc[t] = "a_cas"
                 /\ lastOp'[t] = <<"again", lastOp[t][2]>>
                 /\ held'[lastOp[t][2]] = 1
                 /\ heap' = heap]_vars

\* C3 witness: a round trip has completed on a cache that holds another cell.
C3_Witness ==
    \E t \in Threads :
        /\ lastOp[t][1] = "again"
        /\ held[lastOp[t][2]] = 1
        /\ sentinel[t] # Null

\* a step of thread t inside deallocate(p, 1), and the cell p of that call
DeallocStep(t) ==
    \/ pc[t] = "idle" /\ pc'[t] = "d_cas"
    \/ pc[t] = "d_cas" /\ (pc'[t] = "idle" \/ nodeNext'[dnode[t]] # nodeNext[dnode[t]])

DeallocCell(t) == IF pc[t] = "d_cas" THEN dnode[t] ELSE dnode'[t]

\* C4: when deallocate(p, 1) returns on a thread B other than the thread A
\* whose cache p's back-reference names, and A's cache is not destroyed, p is
\* linked in A's free list; no step of that deallocate changes B's own free
\* list; and an allocate(1) only returns cells whose back-reference is the
\* caller's cache, so B's allocate(1) cannot return p.
C4_HandOff ==
    [][\A t, q \in Threads : \A c \in Addr :
          /\ (pc[t] = "d_cas" /\ pc'[t] = "idle" /\ dnode[t] = c
                  /\ nodePool[c] = q /\ q # t /\ poolState[q] # "destroyed")
               => /\ sentinel'[q] = c
                  /\ c \in Linked(q)'
          /\ (DeallocStep(t) /\ DeallocCell(t) = c /\ nodePool[c] = q /\ q # t)
               => Chain(t)' = Chain(t)
          /\ (AllocReturns(t) /\ held[c] = NotHeld /\ held'[c] # NotHeld)
               => nodePool'[c] = t]_vars

\* C4 witness: B's deallocate of A's cell has returned and A's next
\* allocate(1) has returned that cell.
C4_Witness ==
    \E a \in Addr, t, u \in Threads :
        /\ t # u
        /\ nodePool[a] = t
        /\ lastOp[u] = <<"remote", a>>
        /\ lastOp[t] = <<"alloc", a>>
        /\ held[a] = 1

\* C5: when a thread's cache has been torn down (~Pool ran Pool::clear to its
\* end), every cell that was linked in its free list has been released, and
\* so has every cell that another thread pushed while the walk was running;
\* nothing was released twice.
C5_TeardownReleasesAll ==
    \A t \in Threads :
        poolState[t] = "destroyed"
            => /\ walkLeft[t] = {}
               /\ \A c \in walkPushed[t] : heap[c] # "node"
               /\ ~doubleFree

\* C6: the back-reference of every existing cell, held by a caller, inside a
\* deallocate or linked in a free list, names a cache that is not destroyed.
C6_BackRefLive ==
    \A a \in Addr :
        (heap[a] = "node" /\ (held[a] # NotHeld \/ InFlight(a) \/ IsLinked(a)))
            => poolState[nodePool[a]] # "destroyed"

\* C7: the byte count deallocate(p, n), n > 1, passes to the system
\* allocator equals the byte count the allocate(n) that returned p requested.
C7_BulkBytesMatch == sysDelete # NoDelete => sysDelete[1] = sysDelete[2]

\* a step of allocate(n) or deallocate(p, n) with n != 1
BulkStep ==
    \E a \in Addr :
        \/ held[a] = NotHeld /\ held'[a] # NotHeld /\ held'[a] # 1
        \/ held[a] # NotHeld /\ held[a] # 1 /\ held'[a] = NotHeld

\* C8: allocate(n) and deallocate(p, n) with n != 1 leave every cache's
\* free list, every cell and every allocate(1)/deallocate(p, 1) in progress
\* as they were, and no block of a bulk request is ever linked in a free list.
C8_BulkIndependent ==
    [][/\ BulkStep => UNCHANGED <<poolVars, poolState, pc, regs>>
       /\ \A t \in Threads : \A a \in Linked(t)' :
              heap'[a] = "node" /\ held'[a] = NotHeld]_vars

\* C8 witness: a bulk block is held while a free list holds a cell and
\* another address has been released again by a bulk deallocate.
C8_Witness ==
    \E a \in Addr, t \in Threads :
        /\ heap[a] = "bulk"
        /\ held[a] = 2
        /\ sentinel[t] # Null
        /\ sysDelete # NoDelete

\* C9: with the free list of a cache read as a LIFO stack, every step either
\* leaves it as it is, pushes one cell on top (the commit of a deallocate),
\* or removes exactly the top cell and hands that cell out (the commit of an
\* allocate hit): the commits are the linearization points.
C9_Linearizable ==
    [][\A t \in Threads :
          \/ Chain(t)' = Chain(t)
          \/ \E c \in Addr : /\ Chain(t)' = <<c>> \o Chain(t)
                             /\ \E u \in Threads : pc[u] = "d_cas" /\ dnode[u] = c
          \/ /\ Chain(t) # <<>>
             /\ Chain(t)' = Tail(Chain(t))
             /\ held'[Head(Chain(t))] = 1]_vars

\* C10: when clear() returns and no other thread pushed onto the caller's
\* cache meanwhile, the caller's free list is empty and every cell that was
\* linked in it has been released; Pool::clear releases only cells that were
\* linked when it started, each once and none held by a caller, and its
\* steps leave the caches of the other threads unchanged.
C10_ClearEmpties ==
    [][\A t \in Threads :
          /\ (pc[t] = "c_loop" /\ pc'[t] = "idle" /\ walkPushed[t] = {})
               => /\ sentinel'[t] = Null
                  /\ walkLeft[t] = {}
          /\ (pc[t] = "c_delete" /\ pc'[t] # "c_delete")
               => /\ cp[t] \in walkLeft[t]
                  /\ heap[cp[t]] = "node"
                  /\ nodePool[cp[t]] = t
                  /\ held[cp[t]] = NotHeld
                  /\ ~InFlight(cp[t])
          /\ (Walking(t) /\ pc'[t] # pc[t])
               => \A u \in Threads \ {t} : Chain(u)' = Chain(u)]_vars

\* C10 witness: clear() is about to return, undisturbed, after it released
\* a cell, while a caller holds a cell of the same cache and another
\* thread's cache holds a cell.
C10_Witness ==
    \E t, u \in Threads, a, b \in Addr :
        /\ t # u
        /\ pc[t] = "c_loop"
        /\ cp[t] = Null
        /\ poolState[t] = "live"
        /\ walkPushed[t] = {}
        /\ a \in walkFreed[t]
        /\ heap[a] = "free"
        /\ sentinel[t] = Null
        /\ held[b] = 1
        /\ nodePool[b] = t
        /\ sentinel[u] # Null

\* the step is a call deallocate(p, n) with p null or n == 0
NoopCall == dcall'[3] # dcall[3] /\ (dcall'[1] = 0 \/ dcall'[2] = 0)

\* C11: deallocate(p, n) with p null or n == 0 changes no cache's free list,
\* writes to no cell, makes no call to the system allocator and leaves every
\* operation in progress where it is, whatever the other argument is.
C11_NoopDeallocate ==
    [][NoopCall => UNCHANGED <<poolVars, poolState, heap, blockBytes,
                                sysDelete, doubleFree, pc, regs>>]_vars

\* C11 witness: deallocate(p, 0) was called with a non-null p while a caller
\* holds a cell and a free list holds two cells, and nothing was released.
C11_Witness ==
    /\ dcall[1] = 1
    /\ dcall[2] = 0
    /\ dcall[3] = 1
    /\ \E c \in Addr : held[c] = 1 /\ heap[c] = "node"
    /\ \E t \in Threads : Cardinality(Linked(t)) = 2
    /\ \A a \in Addr : heap[a] # "free"

\* the step is an allocate that ends with std::bad_alloc
Fails == oom' # oom

\* a step that hands a new block or a cell to a caller
Granted(a) == held[a] = NotHeld /\ held'[a] # NotHeld

\* C12: a step that ends allocate(1) either hands exactly one cell to the
\* caller or is a failure; allocate fails only at its call of ::operator new
\* (never on the hit path); a failing step changes no free list, no cell, no
\* block and no caller's hold; and every address handed out is storage the
\* system allocator holds for the program.
C12_NoPartialFailure ==
    [][/\ \A t \in Threads :
             AllocReturns(t) =>
                 \/ Fails /\ pc[t] = "a_new"
                 \/ /\ ~Fails
                    /\ \E a \in Addr :
                          /\ Granted(a)
                          /\ held'[a] = 1
                          /\ \A b \in Addr \ {a} : held'[b] = held[b]
       /\ Fails => /\ UNCHANGED <<poolVars, poolState, heap, blockBytes, held>>
                   /\ \A t \in Threads : pc'[t] # pc[t] => pc[t] = "a_new"
       /\ \A a \in Addr : Granted(a) => ~Fails /\ heap'[a] \in {"node", "bulk"}]_vars

\* C12 witness: an allocate has failed while the system allocator still had a
\* free block, a free list holds a cell and callers hold a cell and a bulk block.
C12_Witness ==
    /\ oom = 1
    /\ \E a \in Addr : heap[a] = "free"
    /\ \E t \in Threads : sentinel[t] # Null
    /\ \E a \in Addr : held[a] = 1

\* C13: every allocate(1) and deallocate(p, 1) of a thread that keeps being
\* scheduled completes, when the threads perform finitely many operations,
\* wherever the other thread stops.
C13_Progress == (pc[1] # "idle") ~> (pc[1] = "idle")

\* C13 witness: thread 1 has finished its operations, one of them an
\* allocate whose compare-and-swap was retried after a push of thread 2 (it
\* left a cell behind), while thread 2 stands inside a deallocate.
C13_Witness ==
    /\ pc[1] = "idle"
    /\ budget[1] = 0
    /\ pc[2] = "d_cas"
    /\ \E a \in Addr : Lost(a) /\ nodePool[a] = 1

\* C14: a block allocate(n) returned holds at least n elements of
\* value_type: the bytes obtained from the system allocator are at least
\* n * sizeof(value_type), for every n of size_type.
C14_BlockHoldsN ==
    \A a \in Addr :
        (heap[a] = "bulk" /\ held[a] # NotHeld)
            => blockBytes[a] >= held[a] * SizeofValue(elemType)

\* C15: operator== returns true for every pair of allocators, in every state
\* of the caches, and evaluating it changes nothing but its result.
C15_AlwaysEqual ==
    [][/\ eqResult' # "false"
       /\ eqResult' # eqResult
            => UNCHANGED <<variantVars, elemType, poolVars, poolState, heap, blockBytes,
                           held, pc, regs, sysDelete, doubleFree>>]_vars

\* C15 witness: a comparison has been evaluated while a free list holds a
\* cell, a caller holds a cell and the other thread is inside an operation.
C15_Witness ==
    /\ eqResult = "true"
    /\ \E t \in Threads : sentinel[t] # Null
    /\ \E a \in Addr : held[a] = 1
    /\ \E t \in Threads : pc[t] \in {"a_cas", "d_cas", "c_delete"}

\* C16: every cell linked in the free list of a cache is a cell whose
\* back-reference is that cache, no cell is linked in the free lists of two
\* caches, and no cell occurs twice in one free list.
C16_Residency ==
    /\ \A t \in Threads : \A a \in Linked(t) : nodePool[a] = t
    /\ \A t, u \in Threads : t # u => Linked(t) \cap Linked(u) = {}
    /\ \A t \in Threads : Len(Chain(t)) = Cardinality(Linked(t))

\* C16 witness: both free lists hold cells, one of them two cells, after a
\* push that committed while the owner's clear() was walking.
C16_Witness ==
    \E t, u \in Threads :
        /\ t # u
        /\ Cardinality(Linked(t)) = 2
        /\ Linked(u) # {}
        /\ walkPushed[u] # {}

\* C17: under allocate(1), deallocate(p, 1) and clear(), the chain from the
\* head of a cache along the next links ends (it has no cycle), and every
\* cell on it is free: a cell the system allocator holds for the program,
\* that no caller holds and that no deallocate is still pushing.
C17_WellFormed ==
    \A t \in Threads :
        /\ Len(Chain(t)) <= MaxAddr
        /\ Len(Chain(t)) = Cardinality(Linked(t))
        /\ \A a \in Linked(t) :
              /\ heap[a] = "node"
              /\ held[a] = NotHeld
              /\ ~InFlight(a)

\* C17 witness: a free list holds two cells while its owner's allocate(1) is
\* about to retry its compare-and-swap and a cell of the cache has been lost.
C17_Witness ==
    \E t \in Threads :
        /\ Len(Chain(t)) = 2
        /\ pc[t] = "a_cas"
        /\ node[t] # sentinel[t]
        /\ \E a \in Addr : Lost(a)

\* a step in which ::operator new(sizeof(Node)) returns a new cell
NewCell == \E a \in Addr : heap[a] = "free" /\ heap'[a] = "node"

\* C18: allocate(1) takes the miss path, the only one that calls the system
\* allocator and the only one that can fail, exactly when the free list of
\* the calling thread was empty at its load of the head; when the list was
\* not empty at that load, allocate(1) stays on the hit path whatever is
\* pushed meanwhile and ends by handing out a cell that existed, with no
\* call of the system allocator.
C18_HitsStayHits ==
    [][/\ NewCell => \E t \in Threads : pc[t] = "a_new" /\ node[t] = Null
       /\ \A t \in Threads :
            /\ (pc[t] = "idle" /\ pc'[t] = "a_new") => sentinel[t] = Null
            /\ (pc[t] = "idle" /\ pc'[t] = "a_next") => sentinel[t] # Null
            /\ pc[t] \in {"a_next", "a_cas"}
                 => /\ pc'[t] \in {"a_next", "a_cas", "idle"}
                    /\ pc'[t] # pc[t] => heap' = heap
                    /\ pc'[t] = "idle"
                         => \E a \in Addr :
                               /\ Granted(a)
                               /\ heap[a] = "node"
                               /\ nodePool[a] = t]_vars

\* C18 witness: a hit has returned a cell after its compare-and-swap was
\* retried because of a concurrent push (a cell was left behind), and the
\* system allocator still has a free block.
C18_Witness ==
    \E a, b \in Addr, t \in Threads :
        /\ Lost(a)
        /\ nodePool[a] = t
        /\ held[b] = 1
        /\ nodePool[b] = t
        /\ pc[t] = "idle"
        /\ \E c \in Addr : heap[c] = "free"

\* C19: a block obtained by allocate(n), n != 1, that the caller has passed
\* to the matching deallocate(p, n) has been released to the system
\* allocator: every bulk block that still exists is held by a caller.
C19_BulkReclaimed ==
    \A a \in Addr : heap[a] = "bulk" => held[a] # NotHeld

\* the cells of thread t's local list that lie in the shared list too
InBoth(t) == Range(LocalChain(t)) \cap Range(SharedChain)

\* C20, as stated: in the shared/local variant no address is held by two
\* callers, and no cell is linked at the same time in the shared list and in
\* a local list or in two local lists.
C20_NoSharing ==
    /\ \A a \in Addr : vheld[a] <= 1
    /\ \A t \in Threads : InBoth(t) = {}
    /\ \A t, u \in Threads :
          t # u => Range(LocalChain(t)) \cap Range(LocalChain(u)) = {}

\* thread t is between a load or swap of the shared head and the assignment
\* that settles its local head: inside move_from_shared_to_local_pool
\* before its swap succeeded, or inside move_from_local_to_shared_pool
\* after its swap succeeded
Moving(t) == vpc[t] \in {"v_take", "v_reset"}

\* C20, amended: no address is held by two callers; the local lists of two
\* threads never share a cell, unless one of the threads is moving; the
\* local list of a thread that is not moving shares no cell with the shared
\* list; and no cell of any list is held by a caller.
C20_NoSharingSettled ==
    /\ \A a \in Addr : vheld[a] <= 1
    /\ \A t \in Threads : ~Moving(t) => InBoth(t) = {}
    /\ \A t, u \in Threads :
          (t # u /\ ~Moving(t) /\ ~Moving(u))
              => Range(LocalChain(t)) \cap Range(LocalChain(u)) = {}
    /\ \A a \in Range(SharedChain) : vheld[a] = 0
    /\ \A t \in Threads :
          ~Moving(t) => \A a \in Range(LocalChain(t)) : vheld[a] = 0

\* C20 witness: a thread is moving, its local head still on a cell of the
\* shared list, while the other thread's settled local list holds a cell and
\* a caller holds a cell.
C20_Witness ==
    \E t, u \in Threads, a \in Addr :
        /\ t # u
        /\ Moving(t)
        /\ InBoth(t) # {}
        /\ vpc[u] = "idle"
        /\ lhead[u] # Null
        /\ vheld[a] = 1

\* the local list thread t owns: none while the thread is moving its list
\* (the cells are in the shared list) and none once its LocalPool is gone
OwnChain(t) ==
    IF Moving(t) \/ vpc[t] = "exited" THEN <<>> ELSE LocalChain(t)

\* the number of places that refer to cell a: callers that hold it, links of
\* the shared list, links of the threads' own local lists, and the local
\* pointers of operations that carry it from one list to the next
VPlaces(a) ==
    vheld[a] + Occurs(SharedChain, a)
    + Cardinality({ t \in Threads : Occurs(OwnChain(t), a) > 0 })
    + Cardinality({ t \in Threads : Occurs(OwnChain(t), a) > 1 })
    + Cardinality({ t \in Threads : vp[t] = a })
    + Cardinality({ t \in Threads : vnode[t] = a })

\* C21: when a thread terminates, ~LocalPool links every cell of its local
\* list into the shared list exactly once (no cell twice, no other cell, and
\* all of them by the time the destructor returns), whether its first
\* compare-and-swap succeeds or fails and whatever the other threads push
\* or take meanwhile; the shared list never holds a cell twice, and every
\* cell obtained from the system stays in exactly one place, so none is lost.
C21_ExitPublishesOnce ==
    /\ \A t \in Threads, a \in Addr :
          /\ published[t][a] <= 1
          /\ published[t][a] = 1 => a \in xcells[t]
    /\ \A t \in Threads :
          vpc[t] = "exited" => \A a \in xcells[t] : published[t][a] = 1
    /\ \A a \in Addr : Occurs(SharedChain, a) <= 1
    /\ \A a \in Addr : vheap[a] = "node" => VPlaces(a) = 1

\* C21 witness: a thread has terminated after its first compare-and-swap
\* failed, its destructor moved two cells or more one by one, and the other
\* thread has since taken one of them out of the shared list.
C21_Witness ==
    \E t \in Threads :
        /\ vpc[t] = "exited"
        /\ lhead[t] = Null
        /\ Cardinality(xcells[t]) >= 2
        /\ xcells[t] \ Range(SharedChain) # {}

\* C22: ~SharedPool never reads the next of a cell it has released, passes no
\* cell to ::operator delete twice, and by the time it returns it has
\* released every cell that was linked in the shared list when it began,
\* once each; also when its compare_exchange_weak fails.
C22_ReleasesOnce ==
    /\ ~sread
    /\ \A a \in Addr : sreleased[a] <= 1
    /\ spc = "done" => \A a \in slinked : sreleased[a] = 1

====
